---- MODULE Spec2Model ----
(***************************************************************************)
(* The layer protocol of nn/layers.py: Function, Layer, Linear, Sigmoid.   *)
(*                                                                         *)
(* One layer instance is followed from its construction through any        *)
(* sequence of method calls.  Arrays are two-dimensional ndarrays with an  *)
(* explicit shape; numbers are integers.  Weights and bias are held in     *)
(* units of scale/2 (every operation of the layer is linear in them), the  *)
(* logistic function in thousandths.                                       *)
(***************************************************************************)
EXTENDS Integers, Sequences, FiniteSets

\* Largest in_dim / out_dim / feature dimension tried.
MaxDim == 2
\* Largest batch size tried.
MaxBatch == 2
\* Seeds 0..MaxSeed the random generator may start from.
MaxSeed == 1

VARIABLES
    rng,          \* state of the process-wide random generator (np.random)
    kind,         \* class of the instance: "none" before construction
    weight,       \* self.weight (Linear only)
    bias,         \* self.bias (Linear only)
    gradX_local,  \* self.gradX_local, set by __call__
    output,       \* self.output, set by __call__
    op,           \* observation: the last operation called
    arg,          \* observation: its argument
    ret,          \* observation: the value it returned
    err,          \* observation: whether it raised
    lastX,        \* observation: input of the last invocation that returned
    calls,        \* observation: invocations that returned: 0, 1, 2 = more
    made          \* observation: the parameters as construction left them

vars == <<rng, kind, weight, bias, gradX_local, output,
          op, arg, ret, err, lastX, calls, made>>

----------------------------------------------------------------------------
\* Values: an attribute that does not exist, Python's None, a 2-d ndarray.

Absent == [tag |-> "absent", shape |-> <<>>, data |-> <<>>]
None == [tag |-> "None", shape |-> <<>>, data |-> <<>>]
Nd(r, c, rows) == [tag |-> "ndarray", shape |-> <<r, c>>, data |-> rows]

IsNd(a) == a.tag = "ndarray"
Rows(a) == a.shape[1]
Cols(a) == a.shape[2]

\* What a method call does: raise, or return a value.
Raise == [err |-> TRUE, val |-> None]
Return(v) == [err |-> FALSE, val |-> v]

----------------------------------------------------------------------------
\* The random generator: a linear congruential stream; one draw per entry,
\* filled row by row, as np.random.rand(r, c) fills its result.

Lcg(s) == (5 * s + 3) % 16

RECURSIVE Step(_, _)
Step(s, n) == IF n = 0 THEN s ELSE Step(Lcg(s), n - 1)

Draw(s) == s % 3

Fill(r, c, s) ==
    Nd(r, c, [i \in 1..r |-> [j \in 1..c |-> Draw(Step(s, (i - 1) * c + j))]])

\* scale * (rand - 0.5), in units of scale/2: draws 0, 1, 2 become -1, 0, 1.
Centred(a) ==
    Nd(Rows(a), Cols(a),
       [i \in 1..Rows(a) |-> [j \in 1..Cols(a) |-> a.data[i][j] - 1]])

\* The arrays callers pass: batches of 1..MaxBatch rows and 1..MaxDim
\* columns, two fillings of each shape, entries 0..2.
Batches ==
    {Fill(r, c, s) : r \in 1..MaxBatch, c \in 1..MaxDim, s \in {0, 1}}

\* The dimensions constructors are tried with, invalid ones included.
DimArgs == (-1)..MaxDim

----------------------------------------------------------------------------
\* numpy

RECURSIVE SumSeq(_)
SumSeq(s) == IF s = <<>> THEN 0 ELSE Head(s) + SumSeq(Tail(s))

\* np.dot(a, b) of two 2-d arrays: raises unless a's columns are b's rows.
np_dot(a, b) ==
    IF Cols(a) # Rows(b) THEN Raise
    ELSE Return(Nd(Rows(a), Cols(b),
           [i \in 1..Rows(a) |-> [j \in 1..Cols(b) |->
               SumSeq([k \in 1..Cols(a) |-> a.data[i][k] * b.data[k][j]])]]))

\* a + b where b has one row: b is broadcast over the rows of a.
np_add_row(a, b) ==
    Nd(Rows(a), Cols(a),
       [i \in 1..Rows(a) |-> [j \in 1..Cols(a) |-> a.data[i][j] + b.data[1][j]]])

\* a.T
np_T(a) ==
    Nd(Cols(a), Rows(a),
       [j \in 1..Cols(a) |-> [i \in 1..Rows(a) |-> a.data[i][j]]])

\* a.reshape(-1): the entries row by row.
Flat(a) ==
    [n \in 1..(Rows(a) * Cols(a)) |->
        a.data[((n - 1) \div Cols(a)) + 1][((n - 1) % Cols(a)) + 1]]

\* np.diag(v) of a vector.
np_diag(v) ==
    Nd(Len(v), Len(v),
       [i \in 1..Len(v) |-> [j \in 1..Len(v) |-> IF i = j THEN v[i] ELSE 0]])

----------------------------------------------------------------------------
\* functional.sigmoid and functional.sigmoid_prime, in thousandths.

sigmoid1(v) ==
    CASE v = 0 -> 500
      [] v = 1 -> 731
      [] v = 2 -> 881
      [] v = 3 -> 953

sigmoid(a) ==
    Nd(Rows(a), Cols(a),
       [i \in 1..Rows(a) |-> [j \in 1..Cols(a) |-> sigmoid1(a.data[i][j])]])

sigmoid_prime(a) ==
    Nd(Rows(a), Cols(a),
       [i \in 1..Rows(a) |-> [j \in 1..Cols(a) |->
           (sigmoid1(a.data[i][j]) * (1000 - sigmoid1(a.data[i][j]))) \div 1000]])

----------------------------------------------------------------------------
\* class Function

\* Function.backward, Function.gradX: `pass`.
Function_backward(self, dy) == Return(None)
Function_gradX(self, x) == Return(None)

\* class Layer(Function)

Layer_update_weights(self, args) == Return(None)
Layer_gradW(self, x) == Return(None)

----------------------------------------------------------------------------
\* class Linear(Layer)

\* Linear.init_weights(in_dim, out_dim) with the generator in state s:
\* 1 / sqrt(in_dim) raises for in_dim <= 0 (ValueError below 0,
\* ZeroDivisionError at 0), np.random.rand raises for a negative dimension
\* and accepts a dimension of 0.
Linear_init_weights(in_dim, out_dim, s) ==
    IF in_dim <= 0 \/ out_dim < 0
    THEN [err |-> TRUE, weight |-> Absent, bias |-> Absent, rng |-> s]
    ELSE [err |-> FALSE,
          weight |-> Centred(Fill(in_dim, out_dim, s)),
          bias |-> Centred(Fill(1, out_dim, Step(s, in_dim * out_dim))),
          rng |-> Step(s, in_dim * out_dim + out_dim)]

Linear_update_weights(self, args) == Return(None)

\* Variant: the bias is left out.
Linear_forward_nobias(self, x) == np_dot(x, self.weight)

\* Linear.forward(x): np.dot(x, self.weight) + self.bias
Linear_forward(self, x) ==
    LET d == np_dot(x, self.weight)
    IN  IF d.err THEN Raise ELSE Return(np_add_row(d.val, self.bias))

\* Variant: the weight is not transposed.
Linear_backward_untransposed(self, dy) == np_dot(dy, self.weight)

\* Linear.backward(dy): dy.dot(self.weight.T)
Linear_backward(self, dy) == np_dot(dy, np_T(self.weight))

\* Variant: the local gradient is taken to be the input.
Linear_gradX_input(self, x) == Return(x)

\* Linear.gradX(x): self.weight
Linear_gradX(self, x) == Return(self.weight)

Linear_gradW(self, x) == Return(None)

----------------------------------------------------------------------------
\* class Sigmoid(Layer)

Sigmoid_forward(self, x) == Return(sigmoid(x))

\* Sigmoid.dx(x): np.diag(sigmoid_prime(x).reshape(-1)); no method calls it.
Sigmoid_dx(self, x) == Return(np_diag(Flat(sigmoid_prime(x))))

----------------------------------------------------------------------------
\* The instance, and method resolution on it.

Self == [kind |-> kind, weight |-> weight, bias |-> bias]

forward(self, x) ==
    IF self.kind = "Linear" THEN Linear_forward(self, x) ELSE Sigmoid_forward(self, x)
backward(self, dy) ==
    IF self.kind = "Linear" THEN Linear_backward(self, dy)
    ELSE Function_backward(self, dy)
gradX(self, x) ==
    IF self.kind = "Linear" THEN Linear_gradX(self, x) ELSE Function_gradX(self, x)
gradW(self, x) ==
    IF self.kind = "Linear" THEN Linear_gradW(self, x) ELSE Layer_gradW(self, x)
update_weights(self, args) ==
    IF self.kind = "Linear" THEN Linear_update_weights(self, args)
    ELSE Layer_update_weights(self, args)

----------------------------------------------------------------------------
\* The state machine.

Init ==
    /\ rng \in 0..MaxSeed
    /\ kind = "none"
    /\ weight = Absent
    /\ bias = Absent
    /\ gradX_local = Absent
    /\ output = Absent
    /\ op = "start"
    /\ arg = <<>>
    /\ ret = None
    /\ err = FALSE
    /\ lastX = Absent
    /\ calls = 0
    /\ made = [in_dim |-> 0, out_dim |-> 0, weight |-> Absent, bias |-> Absent]

\* Linear(in_dim, out_dim): Function.__init__, then init_weights.
NewLinear(in_dim, out_dim) ==
    LET r == Linear_init_weights(in_dim, out_dim, rng)
    IN  /\ kind = "none"
        /\ op' = "Linear"
        /\ arg' = <<in_dim, out_dim>>
        /\ ret' = None
        /\ err' = r.err
        /\ rng' = r.rng
        /\ kind' = IF r.err THEN "none" ELSE "Linear"
        /\ weight' = r.weight
        /\ bias' = r.bias
        /\ made' = IF r.err THEN made
                   ELSE [in_dim |-> in_dim, out_dim |-> out_dim,
                         weight |-> r.weight, bias |-> r.bias]
        /\ UNCHANGED <<gradX_local, output, lastX, calls>>

\* Sigmoid(): Function.__init__ only.
NewSigmoid ==
    /\ kind = "none"
    /\ op' = "Sigmoid"
    /\ arg' = <<>>
    /\ ret' = None
    /\ err' = FALSE
    /\ kind' = "Sigmoid"
    /\ UNCHANGED <<rng, weight, bias, gradX_local, output, lastX, calls, made>>

\* Variant: forward runs before gradX, so a raising forward caches nothing.
Call_forward_first(x) ==
    LET g == gradX(Self, x)
        f == forward(Self, x)
    IN  /\ kind # "none"
        /\ op' = "call"
        /\ arg' = x
        /\ output' = IF f.err THEN output ELSE f.val
        /\ gradX_local' = IF f.err \/ g.err THEN gradX_local ELSE g.val
        /\ ret' = IF g.err \/ f.err THEN None ELSE f.val
        /\ err' = (g.err \/ f.err)
        /\ lastX' = IF g.err \/ f.err THEN lastX ELSE x
        /\ calls' = IF g.err \/ f.err THEN calls ELSE IF calls = 0 THEN 1 ELSE 2
        /\ UNCHANGED <<rng, kind, weight, bias, made>>

\* layer(x): Function.__call__
Call(x) ==
    LET g == gradX(Self, x)
        f == forward(Self, x)
    IN  /\ kind # "none"
        /\ op' = "call"
        /\ arg' = x
        /\ gradX_local' = IF g.err THEN gradX_local ELSE g.val
        /\ output' = IF g.err \/ f.err THEN output ELSE f.val
        /\ ret' = IF g.err \/ f.err THEN None ELSE f.val
        /\ err' = (g.err \/ f.err)
        /\ lastX' = IF g.err \/ f.err THEN lastX ELSE x
        /\ calls' = IF g.err \/ f.err THEN calls ELSE IF calls = 0 THEN 1 ELSE 2
        /\ UNCHANGED <<rng, kind, weight, bias, made>>

\* A method that only computes: the instance is left as it is.
Observe(name, x, r) ==
    /\ kind # "none"
    /\ op' = name
    /\ arg' = x
    /\ ret' = r.val
    /\ err' = r.err
    /\ UNCHANGED <<rng, kind, weight, bias, gradX_local, output,
                   lastX, calls, made>>

Forward(x) == Observe("forward", x, forward(Self, x))

\* Variant: backward transposes the stored weight in place.
Backward_transposing(dy) ==
    LET r == backward(Self, dy)
    IN  /\ kind # "none"
        /\ op' = "backward"
        /\ arg' = dy
        /\ ret' = r.val
        /\ err' = r.err
        /\ weight' = IF IsNd(weight) THEN np_T(weight) ELSE weight
        /\ UNCHANGED <<rng, kind, bias, gradX_local, output, lastX, calls, made>>

Backward(dy) == Observe("backward", dy, backward(Self, dy))
GradX(x) == Observe("gradX", x, gradX(Self, x))

\* Variant: gradW drops the cached output.
GradW_clearing(x) ==
    LET r == gradW(Self, x)
    IN  /\ kind # "none"
        /\ op' = "gradW"
        /\ arg' = x
        /\ ret' = r.val
        /\ err' = r.err
        /\ output' = Absent
        /\ UNCHANGED <<rng, kind, weight, bias, gradX_local, lastX, calls, made>>

GradW(x) == Observe("gradW", x, gradW(Self, x))
UpdateWeights == Observe("update_weights", <<>>, update_weights(Self, <<>>))

Next ==
    \/ \E i \in DimArgs, o \in DimArgs : NewLinear(i, o)
    \/ NewSigmoid
    \/ \E x \in Batches : Call(x)
    \/ \E x \in Batches : Forward(x)
    \/ \E dy \in Batches : Backward(dy)
    \/ \E x \in Batches : GradX(x)
    \/ \E x \in Batches : GradW(x)
    \/ UpdateWeights

Spec == Init /\ [][Next]_vars

----------------------------------------------------------------------------
\* What the properties below are stated with.

\* sum of f[1..n]
RECURSIVE Sigma(_, _)
Sigma(f, n) == IF n = 0 THEN 0 ELSE Sigma(f, n - 1) + f[n]

IsLinear == kind = "Linear"
IsSigmoid == kind = "Sigmoid"
in_dim == Rows(weight)
out_dim == Cols(weight)

\* The scenario of the specification: Linear(3, 2) with fixed parameters.
ScenarioLayer ==
    [kind |-> "Linear",
     weight |-> Nd(3, 2, <<<<1, 0>>, <<0, 1>>, <<1, 1>>>>),
     bias |-> Nd(1, 2, <<<<0, 0>>>>)]

\* C1: a Linear layer called (or forwarded) on x of shape (B, in_dim) returns
\* the array of shape (B, out_dim) whose entry (i, j) is
\* sum_k x[i,k] * W[k,j] + b[j]; the scenario input [[1,2,3]] gives [[4,5]].
C1_LinearForward ==
    /\ (IsLinear /\ op \in {"call", "forward"} /\ Cols(arg) = in_dim) =>
          /\ ~err
          /\ IsNd(ret)
          /\ ret.shape = <<Rows(arg), out_dim>>
          /\ \A i \in 1..Rows(arg), j \in 1..out_dim :
                ret.data[i][j] =
                    Sigma([k \in 1..in_dim |-> arg.data[i][k] * weight.data[k][j]],
                          in_dim) + bias.data[1][j]
    /\ Linear_forward(ScenarioLayer, Nd(1, 3, <<<<1, 2, 3>>>>))
          = Return(Nd(1, 2, <<<<4, 5>>>>))

C1_Witness ==
    /\ IsLinear /\ op = "call" /\ ~err
    /\ arg.shape = <<2, 2>> /\ out_dim = 2
    /\ \E j \in 1..2 : bias.data[1][j] # 0
    /\ \E i \in 1..2, j \in 1..2 : ret.data[i][j] # bias.data[1][j]

C3_CallCaches ==
    /\ IsNd(lastX) =>
          /\ calls > 0
          /\ gradX_local = gradX(Self, lastX).val
          /\ output = forward(Self, lastX).val
    /\ ~IsNd(lastX) => (calls = 0 /\ output = Absent)
    /\ (op = "call" /\ ~err) => (lastX = arg /\ ret = output /\ ret # None)
    /\ (op = "call" /\ err) => (gradX_local # Absent /\ ret = None)

C3_Witness ==
    /\ op = "call" /\ ~err /\ calls = 2
    /\ IsSigmoid
    /\ arg.shape = <<2, 2>>
    /\ output = sigmoid(arg)

\* C4: after a Sigmoid layer has been invoked on x its cached local gradient
\* is dx(x), and backward on an upstream of the output's shape returns an
\* array of the input's shape.
C4_SigmoidProtocol ==
    IsSigmoid =>
        /\ IsNd(lastX) => gradX_local = Sigmoid_dx(Self, lastX).val
        /\ (op = "backward" /\ IsNd(output) /\ arg.shape = output.shape) =>
              (~err /\ IsNd(ret) /\ ret.shape = lastX.shape)

\* C5: backward on an instance that was never invoked raises and returns
\* nothing.
C5_UninitializedState ==
    (kind # "none" /\ op = "backward" /\ gradX_local = Absent) =>
        (err /\ ret = None)

\* C6: a Linear layer raises on an input whose trailing dimension is not
\* in_dim and on an upstream gradient whose shape is not that of the last
\* output.
C6_ShapeMismatch ==
    IsLinear =>
        /\ (op \in {"call", "forward"} /\ Cols(arg) # in_dim) => err
        /\ (op = "backward" /\ IsNd(output) /\ arg.shape # output.shape) => err

\* C7: Linear(in_dim, out_dim) raises when a dimension is not positive, and
\* every Linear instance has weight (in_dim, out_dim) and bias (1, out_dim)
\* with in_dim >= 1 and out_dim >= 1.
C7_InvalidDimension ==
    /\ (op = "Linear" /\ (arg[1] <= 0 \/ arg[2] <= 0)) => err
    /\ IsLinear =>
          /\ in_dim >= 1 /\ out_dim >= 1
          /\ weight.shape = <<made.in_dim, made.out_dim>>
          /\ bias.shape = <<1, made.out_dim>>

\* C8: whatever has been called on a Linear layer, its weight and bias are
\* the arrays construction left, of shapes (in_dim, out_dim) and (1, out_dim).
C8_ParametersKept ==
    IsLinear =>
        /\ weight = made.weight
        /\ bias = made.bias
        /\ IsNd(weight) /\ weight.shape = <<made.in_dim, made.out_dim>>
        /\ IsNd(bias) /\ bias.shape = <<1, made.out_dim>>

C8_Witness ==
    /\ IsLinear /\ op = "backward" /\ ~err /\ calls = 2
    /\ weight.shape = <<2, 1>>

C10_SigmoidNoOps ==
    [][(IsSigmoid /\ op' \in {"update_weights", "gradW"}) =>
          /\ ~err' /\ ret' = None
          /\ UNCHANGED <<kind, weight, bias, gradX_local, output>>]_vars

C10_Witness ==
    /\ IsSigmoid /\ op = "gradW" /\ ~err /\ ret = None
    /\ calls = 2 /\ IsNd(output) /\ gradX_local = None

====
